---- MODULE Spec2Model ----
(***************************************************************************)
(* Model of infrastructure/lambda/lambda_function.py: the request handler  *)
(* lambda_handler(event, context), the module-level logger and the         *)
(* module-level bedrock client.                                            *)
(*                                                                         *)
(* Python values are tagged records.  A str is the sequence of its         *)
(* lexemes, so that a request body is text which json.loads has to parse   *)
(* and a response body is text which json.dumps has produced.              *)
(***************************************************************************)
EXTENDS Integers, Sequences, FiniteSets, TLC

(***************************************************************************)
(* Bounds                                                                  *)
(***************************************************************************)
MaxCalls == 2   \* invocations made by the host in the sequential model
NumProcs == 2   \* concurrent invocations in the interleaved model

(***************************************************************************)
(* Python values                                                           *)
(***************************************************************************)
PyNone == [k |-> "NoneType"]
PyStr(lexemes) == [k |-> "str", s |-> lexemes]
PyInt(n) == [k |-> "int", n |-> n]
PyFloat(tenths) == [k |-> "float", x10 |-> tenths]
PyBool(b) == [k |-> "bool", b |-> b]
PyList(items) == [k |-> "list", items |-> items]
PyDict(fields) == [k |-> "dict", fields |-> fields]

EmptyFields == [x \in {} |-> PyNone]

\* d[key] = value on a dict's fields: a repeated key keeps the last value
DictSet(fields, key, value) ==
    [x \in (DOMAIN fields) \cup {key} |-> IF x = key THEN value ELSE fields[x]]

\* v.__class__.__name__
TypeName(v) == v.k

\* Truthy with a str tested after strip(): only a str counts, blank is empty
Truthy_Stripped(v) ==
    CASE v.k = "NoneType" -> FALSE
      [] v.k = "str"      -> Len(v.s) > 0 /\ v.s # <<" ">>
      [] v.k = "int"      -> v.n # 0
      [] v.k = "float"    -> v.x10 # 0
      [] v.k = "bool"     -> v.b
      [] v.k = "list"     -> Len(v.items) > 0
      [] v.k = "dict"     -> DOMAIN v.fields # {}

\* Truthy as the test `message is None or message == ''` would have it
Truthy_NoneOrEmptyStr(v) ==
    CASE v.k = "NoneType" -> FALSE
      [] v.k = "str"      -> Len(v.s) > 0
      [] OTHER            -> TRUE

\* bool(v), as `not v` evaluates it
Truthy(v) ==
    CASE v.k = "NoneType" -> FALSE
      [] v.k = "str"      -> Len(v.s) > 0
      [] v.k = "int"      -> v.n # 0
      [] v.k = "float"    -> v.x10 # 0
      [] v.k = "bool"     -> v.b
      [] v.k = "list"     -> Len(v.items) > 0
      [] v.k = "dict"     -> DOMAIN v.fields # {}

(***************************************************************************)
(* Outcomes of a call: a returned value or a raised exception              *)
(***************************************************************************)
Return(v) == [kind |-> "return", value |-> v]
Raise(cls, msg, tname, pos) ==
    [kind |-> "raise", exc |-> [cls |-> cls, msg |-> msg, tname |-> tname, pos |-> pos]]

\* the base class of each exception class that can arise
BaseOf(cls) ==
    CASE cls = "JSONDecodeError" -> "ValueError"
      [] cls = "ValueError"      -> "Exception"
      [] cls = "AttributeError"  -> "Exception"
      [] cls = "TypeError"       -> "Exception"
      [] cls = "KeyError"        -> "LookupError"
      [] cls = "LookupError"     -> "Exception"
      [] cls = "Exception"       -> "BaseException"
      [] OTHER                   -> "object"

RECURSIVE IsSubclass(_, _)
IsSubclass(cls, target) ==
    IF cls = target THEN TRUE
    ELSE IF cls = "object" THEN FALSE
    ELSE IsSubclass(BaseOf(cls), target)

(***************************************************************************)
(* JSON text: lexemes                                                      *)
(***************************************************************************)
\* string literals of the JSON text and the str each one denotes
StrTable ==
    { <<"\"message\"", <<"message">>>>,
      <<"\"other\"", <<"other">>>>,
      <<"\"\"", <<>>>>,
      <<"\"A\"", <<"A">>>>,
      <<"\"B\"", <<"B">>>>,
      <<"\" \"", <<" ">>>>,
      <<"\"error\"", <<"error">>>>,
      <<"\"response\"", <<"response">>>>,
      <<"\"Hello world\"", <<"Hello world">>>>,
      <<"\"Message is required\"", <<"Message is required">>>>,
      <<"\"Internal server error\"", <<"Internal server error">>>> }

StrToks == { p[1] : p \in StrTable }
StrVal(tok) == (CHOOSE p \in StrTable : p[1] = tok)[2]
Quote(lexemes) == (CHOOSE p \in StrTable : p[2] = lexemes)[1]

NumToks == {"0", "1", "0.0", "1.5"}
NumVal(tok) ==
    CASE tok = "0"   -> PyInt(0)
      [] tok = "1"   -> PyInt(1)
      [] tok = "0.0" -> PyFloat(0)
      [] tok = "1.5" -> PyFloat(15)

NumTok(v) ==
    CASE v = PyInt(0)    -> "0"
      [] v = PyInt(1)    -> "1"
      [] v = PyFloat(0)  -> "0.0"
      [] v = PyFloat(15) -> "1.5"

EOF == "<eof>"
\* a string literal whose closing quote is missing
Unterminated == "\"A"

\* json.decoder.WHITESPACE.match(s, i).end()
RECURSIVE SkipWs(_, _)
SkipWs(s, i) == IF i <= Len(s) /\ s[i] = " " THEN SkipWs(s, i + 1) ELSE i

TokAt(s, i) == IF i <= Len(s) THEN s[i] ELSE EOF

(***************************************************************************)
(* json.loads                                                              *)
(***************************************************************************)
Parsed(v, end) == [ok |-> TRUE, val |-> v, end |-> end]
ParseError(msg, pos) == [ok |-> FALSE, msg |-> msg, pos |-> pos]

RECURSIVE ScanOnce(_, _), JSONObject(_, _, _), JSONArray(_, _, _)

\* json.scanner: one value starting at index i
ScanOnce(s, i) ==
    LET t == TokAt(s, i) IN
    CASE t \in StrToks -> Parsed(PyStr(StrVal(t)), i + 1)
      [] t \in NumToks -> Parsed(NumVal(t), i + 1)
      [] t = "true"    -> Parsed(PyBool(TRUE), i + 1)
      [] t = "false"   -> Parsed(PyBool(FALSE), i + 1)
      [] t = "null"    -> Parsed(PyNone, i + 1)
      [] t = Unterminated -> ParseError("Unterminated string starting at", i)
      [] t = "{"       ->
            IF TokAt(s, SkipWs(s, i + 1)) = "}"
            THEN Parsed(PyDict(EmptyFields), SkipWs(s, i + 1) + 1)
            ELSE JSONObject(s, SkipWs(s, i + 1), EmptyFields)
      [] t = "["       ->
            IF TokAt(s, SkipWs(s, i + 1)) = "]"
            THEN Parsed(PyList(<<>>), SkipWs(s, i + 1) + 1)
            ELSE JSONArray(s, SkipWs(s, i + 1), <<>>)
      [] OTHER         -> ParseError("Expecting value", i)

\* json.decoder.JSONObject: the members from index i on, acc the pairs so far
JSONObject(s, i, acc) ==
    IF TokAt(s, i) \notin StrToks
    THEN ParseError("Expecting property name enclosed in double quotes", i)
    ELSE LET c == SkipWs(s, i + 1) IN
         IF TokAt(s, c) # ":"
         THEN ParseError("Expecting ':' delimiter", c)
         ELSE LET r == ScanOnce(s, SkipWs(s, c + 1)) IN
              IF ~r.ok THEN r
              ELSE LET acc2 == DictSet(acc, StrVal(TokAt(s, i)), r.val)
                       e == SkipWs(s, r.end)
                   IN  IF TokAt(s, e) = "}" THEN Parsed(PyDict(acc2), e + 1)
                       ELSE IF TokAt(s, e) = ","
                            THEN JSONObject(s, SkipWs(s, e + 1), acc2)
                            ELSE ParseError("Expecting ',' delimiter", e)

\* json.decoder.JSONArray: the elements from index i on, acc the items so far
JSONArray(s, i, acc) ==
    LET r == ScanOnce(s, i) IN
    IF ~r.ok THEN r
    ELSE LET acc2 == Append(acc, r.val)
             e == SkipWs(s, r.end)
         IN  IF TokAt(s, e) = "]" THEN Parsed(PyList(acc2), e + 1)
             ELSE IF TokAt(s, e) = ","
                  THEN JSONArray(s, SkipWs(s, e + 1), acc2)
                  ELSE ParseError("Expecting ',' delimiter", e)

\* json.loads(x)
json_loads(x) ==
    IF x.k # "str"
    THEN Raise("TypeError", "the JSON object must be str, bytes or bytearray, not",
               TypeName(x), 0)
    ELSE LET r == ScanOnce(x.s, SkipWs(x.s, 1)) IN
         IF ~r.ok THEN Raise("JSONDecodeError", r.msg, "", r.pos)
         ELSE IF SkipWs(x.s, r.end) # Len(x.s) + 1
              THEN Raise("JSONDecodeError", "Extra data", "", SkipWs(x.s, r.end))
              ELSE Return(r.val)

(***************************************************************************)
(* json.dumps                                                              *)
(***************************************************************************)
RECURSIVE SetToSeq(_)
SetToSeq(S) ==
    IF S = {} THEN <<>>
    ELSE LET x == CHOOSE y \in S : TRUE IN <<x>> \o SetToSeq(S \ {x})

RECURSIVE Encode(_), EncodeItems(_), EncodePairs(_, _)

\* the lexemes json.dumps writes for v, with its default separators ', ' and ': '
Encode(v) ==
    CASE v.k = "NoneType" -> <<"null">>
      [] v.k = "str"      -> <<Quote(v.s)>>
      [] v.k = "int"      -> <<NumTok(v)>>
      [] v.k = "float"    -> <<NumTok(v)>>
      [] v.k = "bool"     -> IF v.b THEN <<"true">> ELSE <<"false">>
      [] v.k = "list"     -> <<"[">> \o EncodeItems(v.items) \o <<"]">>
      [] v.k = "dict"     ->
            <<"{">> \o EncodePairs(v.fields, SetToSeq(DOMAIN v.fields)) \o <<"}">>

EncodeItems(items) ==
    IF items = <<>> THEN <<>>
    ELSE IF Len(items) = 1 THEN Encode(items[1])
    ELSE Encode(items[1]) \o <<",", " ">> \o EncodeItems(Tail(items))

EncodePairs(fields, keys) ==
    IF keys = <<>> THEN <<>>
    ELSE LET one == <<Quote(keys[1]), ":", " ">> \o Encode(fields[keys[1]]) IN
         IF Len(keys) = 1 THEN one
         ELSE one \o <<",", " ">> \o EncodePairs(fields, Tail(keys))

json_dumps(v) == PyStr(Encode(v))

(***************************************************************************)
(* The module: logger (lines 6-7), bedrock client (line 10), handler       *)
(***************************************************************************)
INFO == 20
ERROR == 40

\* logger.setLevel(logging.INFO)
LoggerLevel == INFO

\* str(e): the exception's description, without its class
StrOf(exc) == [msg |-> exc.msg, tname |-> exc.tname, pos |-> exc.pos]

\* logger_error written with logger.debug
logger_debug(exc) ==
    IF 10 >= LoggerLevel
    THEN << [levelno |-> 10, prefix |-> "Error: ", text |-> StrOf(exc)] >>
    ELSE << >>

\* logger.error(f"Error: {str(e)}"): the records the root logger emits
logger_error(exc) ==
    IF ERROR >= LoggerLevel
    THEN << [levelno |-> ERROR, prefix |-> "Error: ", text |-> StrOf(exc)] >>
    ELSE << >>

KeyBody == <<"body">>
KeyMessage == <<"message">>

\* obj.get(key, default): dict.get on a dict, AttributeError on what has no get
get(obj, key, default) ==
    IF obj.k = "dict"
    THEN Return(IF key \in DOMAIN obj.fields THEN obj.fields[key] ELSE default)
    ELSE Raise("AttributeError", "object has no attribute 'get'", TypeName(obj), 0)

Headers400 == (<<"Content-Type">> :> <<"application/json">>)
Headers200 ==
    (<<"Content-Type">> :> <<"application/json">>)
        @@ (<<"Access-Control-Allow-Origin">> :> <<"*">>)
Headers500 == (<<"Content-Type">> :> <<"application/json">>)

\* Response with the CORS header added to every response
Response_Cors(status, headers, payload) ==
    [statusCode |-> status,
     headers |-> headers @@ (<<"Access-Control-Allow-Origin">> :> <<"*">>),
     body |-> json_dumps(PyDict(payload))]

Response(status, headers, payload) ==
    [statusCode |-> status, headers |-> headers, body |-> json_dumps(PyDict(payload))]

\* lines 22-26
Response400 ==
    Response(400, Headers400, (<<"error">> :> PyStr(<<"Message is required">>)))
\* lines 28-37
Response200 ==
    Response(200, Headers200, (<<"response">> :> PyStr(<<"Hello world">>)))
\* lines 41-45
Response500 ==
    Response(500, Headers500, (<<"error">> :> PyStr(<<"Internal server error">>)))

\* GetBody written as event['body']
GetBody_Subscript(event) ==
    IF event.k = "dict"
    THEN IF KeyBody \in DOMAIN event.fields
         THEN Return(event.fields[KeyBody])
         ELSE Raise("KeyError", "'body'", "", 0)
    ELSE Raise("TypeError", "object is not subscriptable", TypeName(event), 0)

\* line 18, first half: event.get('body', '{}')
GetBody(event) == get(event, KeyBody, PyStr(<<"{", "}">>))
\* line 19: body.get('message', '')
GetMessage(body) == get(body, KeyMessage, PyStr(<<>>))
\* Respond with another status on the empty message
Respond_422(message) ==
    IF ~Truthy(message)
    THEN Response(422, Headers400, (<<"error">> :> PyStr(<<"Message is required">>)))
    ELSE Response200

\* lines 21-37: the branch on `not message`
Respond(message) == IF ~Truthy(message) THEN Response400 ELSE Response200

\* lines 17-37: the try block, up to its return or the exception it raises
TryBlock(event) ==
    LET raw == GetBody(event) IN
    IF raw.kind = "raise" THEN raw
    ELSE LET body == json_loads(raw.value) IN
         IF body.kind = "raise" THEN body
         ELSE LET message == GetMessage(body.value) IN
              IF message.kind = "raise" THEN message
              ELSE Return(Respond(message.value))

\* Caught for the clause `except ValueError`
Caught_ValueErrorOnly(exc) == IsSubclass(exc.cls, "ValueError")

\* line 39: except Exception
Caught(exc) == IsSubclass(exc.cls, "Exception")

\* lambda_handler with the exception's message put in the 500 body
lambda_handler_Leak(event) ==
    LET r == TryBlock(event) IN
    IF r.kind = "raise" /\ Caught(r.exc)
    THEN [outcome |-> Return([statusCode |-> 500, headers |-> Headers500,
                              body |-> PyStr(<<"{", "\"error\"", ":", " ", r.exc.msg, "}">>)]),
          logs |-> logger_error(r.exc), invoked |-> 0]
    ELSE [outcome |-> r, logs |-> << >>, invoked |-> 0]

\* lambda_handler(event, context): its outcome, the log records it writes and
\* the requests it sends through the bedrock client
lambda_handler(event) ==
    LET r == TryBlock(event) IN
    IF r.kind = "raise" /\ Caught(r.exc)
    THEN [outcome |-> Return(Response500), logs |-> logger_error(r.exc), invoked |-> 0]
    ELSE [outcome |-> r, logs |-> << >>, invoked |-> 0]

(***************************************************************************)
(* The inputs: request bodies and events                                   *)
(***************************************************************************)
\* JSON texts of the values tried under the key message and as whole bodies
ValueTexts ==
    { <<"\"\"">>, <<"\"A\"">>, <<"\"B\"">>, <<"\" \"">>,
      <<"0">>, <<"1">>, <<"0.0">>, <<"1.5">>,
      <<"true">>, <<"false">>, <<"null">>,
      <<"[", "]">>, <<"[", "0", "]">>, <<"[", "\"\"", ",", " ", "0", "]">>,
      <<"{", "}">>, <<"{", "\"other\"", ":", " ", "0", "}">> }

\* bodies that are JSON objects
ObjectTexts ==
    { <<"{", "}">>, <<"{", " ", "}">>,
      <<"{", "\"other\"", ":", " ", "\"A\"", "}">> }
    \cup { <<"{", "\"message\"", ":", " ">> \o v \o <<"}">> : v \in ValueTexts }
    \cup { <<"{", "\"message\"", ":">> \o v \o <<",", "\"other\"", ":", "1", "}">> :
              v \in ValueTexts }
    \cup { <<"{", "\"other\"", ":", "\"A\"", ",", "\"message\"", ":">> \o v \o <<"}">> :
              v \in ValueTexts }
    \cup { <<"{", "\"message\"", ":", "\"A\"", ",", "\"message\"", ":", "\"\"", "}">>,
           <<"{", "\"message\"", ":", "\"\"", ",", "\"message\"", ":", "\"A\"", "}">>,
           <<" ", "{", "\"message\"", " ", ":", "\"B\"", " ", "}", " ">> }

\* texts that are not JSON
BrokenTexts ==
    { << >>, <<" ">>, <<"not-json">>, <<Unterminated>>,
      <<"{">>, <<"{", "\"message\"">>, <<"{", "\"message\"", ":">>,
      <<"{", "\"message\"", ":", "\"A\"">>,
      <<"{", "\"message\"", ":", "\"A\"", ",", "}">>,
      <<"{", "\"message\"", "\"A\"", "}">>,
      <<"{", "0", ":", "\"A\"", "}">>,
      <<"{", "\"message\"", ":", "\"A\"", "}", "}">>,
      <<"{", "}", "{", "}">>,
      <<"[", "0", ",", "]">>, <<"[", "0", "1", "]">>, <<"[">>,
      <<"{", "\"message\"", ":", "not-json", "}">> }

BodyTexts == ObjectTexts \cup ValueTexts \cup BrokenTexts

\* body values that are not str
NonStrBodies ==
    { PyNone, PyInt(0), PyInt(1), PyBool(TRUE), PyList(<< >>),
      PyDict(EmptyFields), PyDict(KeyMessage :> PyStr(<<"A">>)) }

KeyPath == <<"path">>

\* events that are mappings
DictEvents ==
    { PyDict(EmptyFields), PyDict(KeyPath :> PyStr(<<"A">>)) }
    \cup { PyDict(KeyBody :> PyStr(t)) : t \in BodyTexts }
    \cup { PyDict((KeyBody :> PyStr(t)) @@ (KeyPath :> PyStr(<<"A">>))) :
              t \in { <<"{", "}">>, << >> } }
    \cup { PyDict(KeyBody :> b) : b \in NonStrBodies }

\* events that are not mappings
OtherEvents == { PyNone, PyList(<< >>), PyStr(<<"{", "}">>), PyInt(1) }

Events == DictEvents \cup OtherEvents

\* the events the concurrent invocations are given: one for each path
\* through the handler and each kind of failure
ConcEvents ==
    { PyDict(KeyBody :> PyStr(<<"{", "\"message\"", ":", " ", "\"A\"", "}">>)),
      PyDict(KeyBody :> PyStr(<<"{", "\"message\"", ":", " ", "\"B\"", "}">>)),
      PyDict(KeyBody :> PyStr(<<"{", "\"message\"", ":", " ", "\"\"", "}">>)),
      PyDict(KeyBody :> PyStr(<<"{", "}">>)),
      PyDict(EmptyFields),
      PyDict(KeyBody :> PyStr(<<"not-json">>)),
      PyDict(KeyBody :> PyStr(<<"[", "]">>)),
      PyDict(KeyBody :> PyNone),
      PyNone }

(***************************************************************************)
(* State                                                                   *)
(***************************************************************************)
VARIABLES
    log,            \* records emitted by the root logger, oldest first
    bedrockCalls,   \* requests sent through the bedrock client
    \* the host invoking the handler one call after another
    event,          \* argument of the last call
    outcome,        \* outcome of the last call
    calls,          \* calls made
    \* the host running invocations concurrently: one process per call
    pc,             \* where each call stands
    ev,             \* its argument event
    raw,            \* the value of event.get('body', '{}')
    body,           \* its local body
    message,        \* its local message
    exc,            \* the exception in flight
    ret             \* its outcome

vars == <<log, bedrockCalls, event, outcome, calls, pc, ev, raw, body, message, exc, ret>>
seqVars == <<event, outcome, calls>>
concVars == <<pc, ev, raw, body, message, exc, ret>>

Procs == 1..NumProcs
Unbound == [k |-> "unbound"]
NoCall == [kind |-> "none"]

Init ==
    /\ log = << >>
    /\ bedrockCalls = 0
    /\ event = Unbound
    /\ outcome = NoCall
    /\ calls = 0
    /\ pc = [p \in Procs |-> "idle"]
    /\ ev = [p \in Procs |-> Unbound]
    /\ raw = [p \in Procs |-> Unbound]
    /\ body = [p \in Procs |-> Unbound]
    /\ message = [p \in Procs |-> Unbound]
    /\ exc = [p \in Procs |-> Unbound]
    /\ ret = [p \in Procs |-> NoCall]

(***************************************************************************)
(* One call after another: lambda_handler(e, context) as a whole           *)
(***************************************************************************)
Invoke(e) ==
    /\ calls < MaxCalls
    /\ LET r == lambda_handler(e) IN
        /\ event' = e
        /\ outcome' = r.outcome
        /\ log' = log \o r.logs
        /\ bedrockCalls' = bedrockCalls + r.invoked
    /\ calls' = calls + 1
    /\ UNCHANGED concVars

Next == \E e \in Events : Invoke(e)

Spec == Init /\ [][Next]_vars

(***************************************************************************)
(* Concurrent calls: the handler statement by statement                    *)
(***************************************************************************)
\* the host calls lambda_handler(e, context) in process p
Call(p, e) ==
    /\ pc[p] = "idle"
    /\ ev' = [ev EXCEPT ![p] = e]
    /\ pc' = [pc EXCEPT ![p] = "get_body"]
    /\ UNCHANGED <<log, bedrockCalls, raw, body, message, exc, ret>>
    /\ UNCHANGED seqVars

\* line 18: event.get('body', '{}')
EvalGetBody(p) ==
    /\ pc[p] = "get_body"
    /\ LET r == GetBody(ev[p]) IN
        IF r.kind = "raise"
        THEN /\ exc' = [exc EXCEPT ![p] = r.exc]
             /\ pc' = [pc EXCEPT ![p] = "except"]
             /\ raw' = raw
        ELSE /\ raw' = [raw EXCEPT ![p] = r.value]
             /\ pc' = [pc EXCEPT ![p] = "loads"]
             /\ exc' = exc
    /\ UNCHANGED <<log, bedrockCalls, ev, body, message, ret>>
    /\ UNCHANGED seqVars

\* line 18: body = json.loads(...)
EvalLoads(p) ==
    /\ pc[p] = "loads"
    /\ LET r == json_loads(raw[p]) IN
        IF r.kind = "raise"
        THEN /\ exc' = [exc EXCEPT ![p] = r.exc]
             /\ pc' = [pc EXCEPT ![p] = "except"]
             /\ body' = body
        ELSE /\ body' = [body EXCEPT ![p] = r.value]
             /\ pc' = [pc EXCEPT ![p] = "get_message"]
             /\ exc' = exc
    /\ UNCHANGED <<log, bedrockCalls, ev, raw, message, ret>>
    /\ UNCHANGED seqVars

\* EvalGetMessage with message a module-level global shared by all calls
EvalGetMessage_Global(p) ==
    /\ pc[p] = "get_message"
    /\ LET r == GetMessage(body[p]) IN
        IF r.kind = "raise"
        THEN /\ exc' = [exc EXCEPT ![p] = r.exc]
             /\ pc' = [pc EXCEPT ![p] = "except"]
             /\ message' = message
        ELSE /\ message' = [q \in Procs |-> r.value]
             /\ pc' = [pc EXCEPT ![p] = "branch"]
             /\ exc' = exc
    /\ UNCHANGED <<log, bedrockCalls, ev, raw, body, ret>>
    /\ UNCHANGED seqVars

\* line 19: message = body.get('message', '')
EvalGetMessage(p) ==
    /\ pc[p] = "get_message"
    /\ LET r == GetMessage(body[p]) IN
        IF r.kind = "raise"
        THEN /\ exc' = [exc EXCEPT ![p] = r.exc]
             /\ pc' = [pc EXCEPT ![p] = "except"]
             /\ message' = message
        ELSE /\ message' = [message EXCEPT ![p] = r.value]
             /\ pc' = [pc EXCEPT ![p] = "branch"]
             /\ exc' = exc
    /\ UNCHANGED <<log, bedrockCalls, ev, raw, body, ret>>
    /\ UNCHANGED seqVars

\* lines 21-37: if not message: return ...; return ...
Branch(p) ==
    /\ pc[p] = "branch"
    /\ ret' = [ret EXCEPT ![p] = Return(Respond(message[p]))]
    /\ pc' = [pc EXCEPT ![p] = "done"]
    /\ UNCHANGED <<log, bedrockCalls, ev, raw, body, message, exc>>
    /\ UNCHANGED seqVars

\* lines 39-40: except Exception as e: logger.error(...)
Except(p) ==
    /\ pc[p] = "except"
    /\ IF Caught(exc[p])
       THEN /\ log' = log \o logger_error(exc[p])
            /\ pc' = [pc EXCEPT ![p] = "return_500"]
            /\ ret' = ret
       ELSE /\ ret' = [ret EXCEPT ![p] = [kind |-> "raise", exc |-> exc[p]]]
            /\ pc' = [pc EXCEPT ![p] = "done"]
            /\ log' = log
    /\ UNCHANGED <<bedrockCalls, ev, raw, body, message, exc>>
    /\ UNCHANGED seqVars

\* lines 41-45: return {'statusCode': 500, ...}
Return500(p) ==
    /\ pc[p] = "return_500"
    /\ ret' = [ret EXCEPT ![p] = Return(Response500)]
    /\ pc' = [pc EXCEPT ![p] = "done"]
    /\ UNCHANGED <<log, bedrockCalls, ev, raw, body, message, exc>>
    /\ UNCHANGED seqVars

NextConc ==
    \E p \in Procs :
        \/ \E e \in ConcEvents : Call(p, e)
        \/ EvalGetBody(p)
        \/ EvalLoads(p)
        \/ EvalGetMessage(p)
        \/ Branch(p)
        \/ Except(p)
        \/ Return500(p)

SpecConc == Init /\ [][NextConc]_vars

(***************************************************************************)
(* Properties                                                              *)
(***************************************************************************)
Returned == calls > 0 /\ outcome.kind = "return"
Status == outcome.value.statusCode
\* the response body, decoded
Decoded == json_loads(outcome.value.body)
DecodesTo(key, text) ==
    /\ outcome.value.body.k = "str"
    /\ Decoded = Return(PyDict(key :> PyStr(<<text>>)))

Is200 == Returned /\ Status = 200 /\ DecodesTo(<<"response">>, "Hello world")
Is400 == Returned /\ Status = 400 /\ DecodesTo(<<"error">>, "Message is required")
Is500 == Returned /\ Status = 500 /\ DecodesTo(<<"error">>, "Internal server error")

HasBody(e) == e.k = "dict" /\ KeyBody \in DOMAIN e.fields
\* the body of e is text that decodes to a JSON object
BodyIsObject(e) ==
    /\ HasBody(e)
    /\ e.fields[KeyBody].k = "str"
    /\ json_loads(e.fields[KeyBody]).kind = "return"
    /\ json_loads(e.fields[KeyBody]).value.k = "dict"
BodyObject(e) == json_loads(e.fields[KeyBody]).value.fields

\* C1: a body that is a JSON object with a non-empty string under message
\* gets statusCode 200 and a body decoding to exactly
\* {"response": "Hello world"}, whatever the string (whitespace included)
\* and whatever other fields the body has.
C1_NonEmptyMessage ==
    /\ BodyIsObject(event)
    /\ KeyMessage \in DOMAIN BodyObject(event)
    /\ BodyObject(event)[KeyMessage].k = "str"
    /\ BodyObject(event)[KeyMessage].s # << >>
C1_HelloWorld == (calls > 0 /\ C1_NonEmptyMessage) => Is200
C1_Witness ==
    /\ calls > 0
    /\ C1_NonEmptyMessage
    /\ BodyObject(event)[KeyMessage] = PyStr(<<" ">>)
    /\ Is200

\* C2: the bodies {"message": ""} and {} and an event without a body get
\* statusCode 400 and a body decoding to exactly
\* {"error": "Message is required"}.
C2_Events ==
    { PyDict(KeyBody :> PyStr(<<"{", "\"message\"", ":", " ", "\"\"", "}">>)),
      PyDict(KeyBody :> PyStr(<<"{", "}">>)),
      PyDict(EmptyFields) }
C2_MessageRequired == (calls > 0 /\ event \in C2_Events) => Is400
C2_Witness == calls > 0 /\ event = PyDict(EmptyFields) /\ Is400

\* C3: an event with no usable body (body key missing, body null, body the
\* empty string) is treated as {} and ends in the 400 outcome, never in the
\* 500 outcome.
C3_Events ==
    { PyDict(EmptyFields), PyDict(KeyBody :> PyNone), PyDict(KeyBody :> PyStr(<< >>)) }
C3_NoBodyIs400 == (calls > 0 /\ event \in C3_Events) => (Is400 /\ ~Is500)

\* C4: a body that is present but does not parse to a JSON object gets
\* statusCode 500 and a body decoding to exactly
\* {"error": "Internal server error"}; the body text is one fixed text, the
\* same for every failing input.
C4_Text500 == <<"{", "\"error\"", ":", " ", "\"Internal server error\"", "}">>
C4_NotAnObject == HasBody(event) /\ ~BodyIsObject(event)
C4_Generic500 ==
    (calls > 0 /\ C4_NotAnObject) => (Is500 /\ outcome.value.body = PyStr(C4_Text500))
C4_Witness ==
    /\ calls > 0
    /\ event = PyDict(KeyBody :> PyStr(<<"not-json">>))
    /\ Is500
    /\ Len(log) = 1

\* C5: for any event the handler returns a response with statusCode, headers
\* and body; no exception propagates.
C5_Total ==
    calls > 0 =>
        /\ outcome.kind = "return"
        /\ DOMAIN outcome.value = {"statusCode", "headers", "body"}
C5_Witness ==
    /\ calls > 0
    /\ event = PyNone
    /\ outcome.kind = "return"
    /\ Status = 500

\* C6: every response is one of exactly three outcomes, so its decoded body
\* has exactly one of the keys response and error, and response only with 200.
C6_Keys == DOMAIN Decoded.value.fields
C6_ThreeOutcomes ==
    calls > 0 =>
        /\ Is200 \/ Is400 \/ Is500
        /\ (<<"response">> \in C6_Keys) # (<<"error">> \in C6_Keys)
        /\ (<<"response">> \in C6_Keys) => Status = 200
C6_Witness == calls = MaxCalls /\ Is400 /\ Len(log) = 1

\* C7: every response has Content-Type: application/json; it has
\* Access-Control-Allow-Origin: * exactly when its statusCode is 200; the 400
\* and 500 responses have no other header.
ContentType == <<"Content-Type">>
AllowOrigin == <<"Access-Control-Allow-Origin">>
C7_Headers ==
    calls > 0 =>
        LET h == outcome.value.headers IN
        /\ ContentType \in DOMAIN h
        /\ h[ContentType] = <<"application/json">>
        /\ (AllowOrigin \in DOMAIN h) <=> (Status = 200)
        /\ (Status = 200) => h[AllowOrigin] = <<"*">>
        /\ (Status \in {400, 500}) => DOMAIN h = {ContentType}
C7_Witness == Is200 /\ AllowOrigin \in DOMAIN outcome.value.headers

\* C8: for a body decoding to a JSON object the outcome is 400 if the value
\* under message is missing or falsy (empty string, 0, false, null, empty
\* list, empty object) and 200 for every other value.
C8_Falsy ==
    { PyStr(<< >>), PyInt(0), PyFloat(0), PyBool(FALSE), PyNone, PyList(<< >>),
      PyDict(EmptyFields) }
C8_Empty ==
    \/ KeyMessage \notin DOMAIN BodyObject(event)
    \/ BodyObject(event)[KeyMessage] \in C8_Falsy
C8_Falsiness ==
    (calls > 0 /\ BodyIsObject(event)) =>
        /\ C8_Empty => Is400
        /\ ~C8_Empty => Is200
C8_Witness ==
    /\ calls > 0
    /\ BodyIsObject(event)
    /\ KeyMessage \in DOMAIN BodyObject(event)
    /\ BodyObject(event)[KeyMessage] = PyInt(0)
    /\ Is400

\* C9: a call writes a log record exactly when it ends in the 500 outcome:
\* then it writes one record, an error with the failure's description; a call
\* ending in 200 or 400 leaves the log as it was; no call sends anything
\* through the bedrock client.
C9_Step ==
    /\ outcome'.kind = "return"
    /\ outcome'.value.statusCode = 500 =>
          /\ Len(log') = Len(log) + 1
          /\ SubSeq(log', 1, Len(log)) = log
          /\ log'[Len(log')].levelno = ERROR
          /\ log'[Len(log')].text = StrOf(TryBlock(event').exc)
    /\ outcome'.value.statusCode \in {200, 400} => log' = log
    /\ bedrockCalls' = bedrockCalls
C9_LogOnlyOn500 == [][C9_Step]_vars
C9_Witness == calls = MaxCalls /\ Is200 /\ Len(log) = 1 /\ bedrockCalls = 0

\* C10: under every interleaving of concurrent calls each call returns the
\* response it returns when run alone.
C10_NoInterference ==
    \A p \in Procs : pc[p] = "done" => ret[p] = lambda_handler(ev[p]).outcome
C10_Witness ==
    /\ pc[1] = "done" /\ pc[2] = "done"
    /\ ev[1] = PyDict(KeyBody :> PyStr(<<"{", "\"message\"", ":", " ", "\"A\"", "}">>))
    /\ ev[2] = PyDict(KeyBody :> PyStr(<<"{", "\"message\"", ":", " ", "\"B\"", "}">>))
    /\ ret[1].value.statusCode = 200
    /\ ret[2].value.statusCode = 200

====
